---- MODULE Spec2Model ----
(***************************************************************************)
(* Model of the Faucet contract (contracts/FaucetContract.sol, Owned.sol,  *)
(* Logger.sol, IFaucet.sol).                                               *)
(*                                                                         *)
(* Amounts are counted in units of 5 * 10^16 wei (0.05 ether), so that the *)
(* withdrawal ceiling of 100000000000000000 wei is the number 2.  Every    *)
(* call of the contract is one atomic step (a transaction); a reverted     *)
(* call leaves the contract state and all balances as they were and only   *)
(* records its outcome in `last`.                                          *)
(***************************************************************************)
EXTENDS Integers, Sequences, FiniteSets, TLC

VARIABLES
    owner,          \* Owned.owner
    numOfFunders,   \* Faucet.numOfFunders
    funders,        \* Faucet.funders    : mapping(address => bool)
    lutFunders,     \* Faucet.lutFunders : mapping(uint => address), written keys only
    balance,        \* native balance of every account and of the contract
    last,           \* the call executed by the last step and its outcome
    firstFunded,    \* history: senders of addFunds, in order of their first call
    deployer,       \* history: msg.sender of the constructor
    received,       \* history: value taken in by successful addFunds and receive calls
    paidOut,        \* history: value paid out by successful withdraw calls
    \* the page of src/App.js and what surrounds it
    env,                \* the browser: wallet installed, network, authorized account
    loadProviderPc,     \* where the async function loadProvider stands
    web3Api,            \* useState web3Api (null modelled as FALSE)
    account,            \* useState account
    getAccountPending,  \* a getAccounts request of the getAccount effect is in flight
    shouldReload,       \* useState shouldReload
    uiBalance,          \* useState balance: <<>> for null, else <<whole, hundredths>> ether
    txs,                \* transactions started by the buttons and not yet settled
    queries,            \* getBalance requests of loadBalance in flight
    started,            \* number of transactions started by the buttons
    uiLast              \* the last step of the page or of its surroundings

\* the ledger is kept by SpecLedger only; Spec leaves it at zero
ledger == <<received, paidOut>>

\* the page; Spec and SpecLedger leave it closed
uiVars == <<env, loadProviderPc, web3Api, account, getAccountPending, shouldReload,
            uiBalance, txs, queries, started, uiLast>>

\* the state of the contract
contractVars == <<owner, numOfFunders, funders, lutFunders, balance, last, firstFunded>>

\* what a call of the contract does not write
outside == <<deployer, ledger, uiVars>>

vars == <<contractVars, deployer, ledger, uiVars>>

(* ---------------------------- bounds ----------------------------------- *)

\* units every account holds when the contract is deployed
InitBalance == 2
\* largest value attached to addFunds or to a direct transfer
MaxValue == 2
\* getFunderAtIndex is tried with the indices 0..MaxIndex and with UINT8_MAX
MaxIndex == 4
\* SpecLedger takes in value until `received` has reached MaxReceived
MaxReceived == 5

(* ---------------------------- constants -------------------------------- *)

\* 100000000000000000 wei, in units of 5 * 10^16 wei
Ceiling == 2
\* largest value of the uint8 parameter of getFunderAtIndex
UINT8_MAX == 255

\* address(0), the default value of an unset mapping(uint => address) slot
ZeroAddress == "0x0"
\* address(this)
Vault == "faucet"
\* Externally owned accounts, and a contract account whose code has no
\* payable receive or fallback function.
EOAs == {"A", "B"}
NonPayableContracts == {"R"}
Accounts == EOAs \cup NonPayableContracts

\* withdraw is tried with every amount up to one unit above the ceiling
Amounts == 0..(Ceiling + 1)
Values == 0..MaxValue
Indices == (0..MaxIndex) \cup {UINT8_MAX}

NoCall == [op |-> "none", sender |-> ZeroAddress, arg |-> 0, result |-> "ok", ret |-> <<>>]

Call(op, sender, arg, result, ret) ==
    [op |-> op, sender |-> sender, arg |-> arg, result |-> result, ret |-> ret]

(* ---------------------------- helpers ---------------------------------- *)

\* reading lutFunders[index]: an unwritten slot reads as address(0)
lutFundersAt(index) ==
    IF index \in DOMAIN lutFunders THEN lutFunders[index] ELSE ZeroAddress

\* mutants of limitWithdraw: the ceiling written as 1 ether; a strict comparison
limitWithdraw_oneEther(withdrawAmount) == withdrawAmount <= 10 * Ceiling
limitWithdraw_strict(withdrawAmount) == withdrawAmount < Ceiling

\* modifier limitWithdraw: the require condition
limitWithdraw(withdrawAmount) == withdrawAmount <= Ceiling

\* mutant of onlyOwner: the comparison inverted
onlyOwner_inverted(sender) == sender # owner

\* modifier onlyOwner: the require condition
onlyOwner(sender) == sender = owner

\* payable(to).transfer(amount): the outcome; the call to the recipient fails
\* when the recipient is a contract that does not accept value
transferResult(to, amount) ==
    IF balance[Vault] < amount THEN "InsufficientFunds"
    ELSE IF to \in NonPayableContracts THEN "TransferRejected"
    ELSE "ok"

\* the loop of getAllFunders: _funders[i] = lutFunders[i] for i in 0..numOfFunders-1
RECURSIVE getAllFundersLoop(_, _)
getAllFundersLoop(i, _funders) ==
    IF i < numOfFunders
    THEN getAllFundersLoop(i + 1, [_funders EXCEPT ![i + 1] = lutFundersAt(i)])
    ELSE _funders

getAllFundersRet ==
    getAllFundersLoop(0, [k \in 1..numOfFunders |-> ZeroAddress])

getFunderAtIndexRet(index) == lutFundersAt(index)

emitLogRet == "Hello World"

Range(s) == {s[k] : k \in 1..Len(s)}

(* ---------------------------- construction ----------------------------- *)

\* mutant of the constructor of Owned: owner is never assigned
Owned_constructor_unset(sender) == owner = ZeroAddress

\* constructor of Owned
Owned_constructor(sender) == owner = sender

\* the contract as deployed, every account holding `funds`
Deployed(funds) ==
    /\ deployer \in Accounts
    /\ Owned_constructor(deployer)
    /\ received = 0
    /\ paidOut = 0
    /\ numOfFunders = 0
    /\ funders = [a \in Accounts |-> FALSE]
    /\ lutFunders = <<>>
    /\ balance = [a \in Accounts \cup {Vault} |-> IF a = Vault THEN 0 ELSE funds]
    /\ last = NoCall
    /\ firstFunded = <<>>

\* null of JavaScript, where the value is not modelled by FALSE or <<>>
Null == "null"

\* useState({provider: null, isProviderLoaded: false, web3: null, contract: null})
InitialWeb3Api ==
    [provider |-> FALSE, isProviderLoaded |-> FALSE, web3 |-> FALSE, contract |-> FALSE]

NoStep == [step |-> "none", arg |-> ""]

\* the initial values of the useState hooks and no request in flight
PageState(pc) ==
    /\ loadProviderPc = pc
    /\ web3Api = InitialWeb3Api
    /\ account = Null
    /\ getAccountPending = FALSE
    /\ shouldReload = FALSE
    /\ uiBalance = <<>>
    /\ txs = <<>>
    /\ queries = <<>>
    /\ started = 0
    /\ uiLast = NoStep

Init ==
    /\ Deployed(InitBalance)
    /\ env = [installed |-> FALSE, network |-> "right", wallet |-> Null]
    /\ PageState("closed")

(* ---------------------------- operations ------------------------------- *)

\* value moved from the sender to the contract by a payable call
Pay(sender, value) ==
    balance' = [balance EXCEPT ![sender] = @ - value, ![Vault] = @ + value]

\* mutant of addFunds: the flag funders[funder] is never set
addFunds_noFlag(sender, value) ==
    /\ balance[sender] >= value
    /\ Pay(sender, value)
    /\ IF ~funders[sender]
       THEN /\ numOfFunders' = numOfFunders + 1
            /\ lutFunders' = (numOfFunders :> sender) @@ lutFunders
            /\ UNCHANGED funders
       ELSE UNCHANGED <<numOfFunders, funders, lutFunders>>
    /\ firstFunded' = IF sender \in Range(firstFunded)
                      THEN firstFunded ELSE Append(firstFunded, sender)
    /\ last' = Call("addFunds", sender, value, "ok", <<>>)
    /\ UNCHANGED owner

\* mutant of addFunds: the test of funders[funder] is missing
addFunds_noCheck(sender, value) ==
    /\ balance[sender] >= value
    /\ Pay(sender, value)
    /\ numOfFunders' = numOfFunders + 1
    /\ funders' = [funders EXCEPT ![sender] = TRUE]
    /\ lutFunders' = (numOfFunders :> sender) @@ lutFunders
    /\ firstFunded' = IF sender \in Range(firstFunded)
                      THEN firstFunded ELSE Append(firstFunded, sender)
    /\ last' = Call("addFunds", sender, value, "ok", <<>>)
    /\ UNCHANGED owner

\* mutant of addFunds: index = ++numOfFunders instead of numOfFunders++
addFunds_preIncrement(sender, value) ==
    /\ balance[sender] >= value
    /\ Pay(sender, value)
    /\ IF ~funders[sender]
       THEN /\ numOfFunders' = numOfFunders + 1
            /\ funders' = [funders EXCEPT ![sender] = TRUE]
            /\ lutFunders' = ((numOfFunders + 1) :> sender) @@ lutFunders
       ELSE UNCHANGED <<numOfFunders, funders, lutFunders>>
    /\ firstFunded' = IF sender \in Range(firstFunded)
                      THEN firstFunded ELSE Append(firstFunded, sender)
    /\ last' = Call("addFunds", sender, value, "ok", <<>>)
    /\ UNCHANGED owner

\* mutant of addFunds: a deposit without value is refused
addFunds_requiresValue(sender, value) ==
    /\ balance[sender] >= value
    /\ IF value = 0
       THEN /\ last' = Call("addFunds", sender, value, "NoValue", <<>>)
            /\ UNCHANGED <<numOfFunders, funders, lutFunders, balance, firstFunded>>
       ELSE /\ Pay(sender, value)
            /\ IF ~funders[sender]
               THEN /\ numOfFunders' = numOfFunders + 1
                    /\ funders' = [funders EXCEPT ![sender] = TRUE]
                    /\ lutFunders' = (numOfFunders :> sender) @@ lutFunders
               ELSE UNCHANGED <<numOfFunders, funders, lutFunders>>
            /\ firstFunded' = IF sender \in Range(firstFunded)
                              THEN firstFunded ELSE Append(firstFunded, sender)
            /\ last' = Call("addFunds", sender, value, "ok", <<>>)
    /\ UNCHANGED owner

addFunds(sender, value) ==
    /\ balance[sender] >= value
    /\ Pay(sender, value)
    /\ IF ~funders[sender]
       THEN /\ numOfFunders' = numOfFunders + 1
            /\ funders' = [funders EXCEPT ![sender] = TRUE]
            /\ lutFunders' = (numOfFunders :> sender) @@ lutFunders
       ELSE UNCHANGED <<numOfFunders, funders, lutFunders>>
    /\ firstFunded' = IF sender \in Range(firstFunded)
                      THEN firstFunded ELSE Append(firstFunded, sender)
    /\ last' = Call("addFunds", sender, value, "ok", <<>>)
    /\ UNCHANGED owner

\* mutant of receive: the sender is registered as addFunds registers it
receive_registers(sender, value) ==
    /\ balance[sender] >= value
    /\ Pay(sender, value)
    /\ IF ~funders[sender]
       THEN /\ numOfFunders' = numOfFunders + 1
            /\ funders' = [funders EXCEPT ![sender] = TRUE]
            /\ lutFunders' = (numOfFunders :> sender) @@ lutFunders
       ELSE UNCHANGED <<numOfFunders, funders, lutFunders>>
    /\ last' = Call("receive", sender, value, "ok", <<>>)
    /\ UNCHANGED <<owner, firstFunded>>

receive(sender, value) ==
    /\ balance[sender] >= value
    /\ Pay(sender, value)
    /\ last' = Call("receive", sender, value, "ok", <<>>)
    /\ UNCHANGED <<owner, numOfFunders, funders, lutFunders, firstFunded>>

\* mutant of withdraw: only a registered funder may withdraw
withdraw_fundersOnly(sender, withdrawAmount) ==
    /\ IF ~limitWithdraw(withdrawAmount)
       THEN /\ last' = Call("withdraw", sender, withdrawAmount, "LimitExceeded", <<>>)
            /\ UNCHANGED balance
       ELSE IF ~funders[sender]
       THEN /\ last' = Call("withdraw", sender, withdrawAmount, "NotFunder", <<>>)
            /\ UNCHANGED balance
       ELSE /\ last' = Call("withdraw", sender, withdrawAmount,
                            transferResult(sender, withdrawAmount), <<>>)
            /\ IF transferResult(sender, withdrawAmount) = "ok"
               THEN balance' = [balance EXCEPT ![Vault] = @ - withdrawAmount,
                                               ![sender] = @ + withdrawAmount]
               ELSE UNCHANGED balance
    /\ UNCHANGED <<owner, numOfFunders, funders, lutFunders, firstFunded>>

\* mutant of withdraw: the payment is made with send and its result is not
\* tested, so a payment that failed is reported as made
withdraw_uncheckedSend(sender, withdrawAmount) ==
    /\ IF ~limitWithdraw(withdrawAmount)
       THEN /\ last' = Call("withdraw", sender, withdrawAmount, "LimitExceeded", <<>>)
            /\ UNCHANGED balance
       ELSE /\ last' = Call("withdraw", sender, withdrawAmount, "ok", <<>>)
            /\ IF transferResult(sender, withdrawAmount) = "ok"
               THEN balance' = [balance EXCEPT ![Vault] = @ - withdrawAmount,
                                               ![sender] = @ + withdrawAmount]
               ELSE UNCHANGED balance
    /\ UNCHANGED <<owner, numOfFunders, funders, lutFunders, firstFunded>>

withdraw(sender, withdrawAmount) ==
    /\ IF ~limitWithdraw(withdrawAmount)
       THEN /\ last' = Call("withdraw", sender, withdrawAmount, "LimitExceeded", <<>>)
            /\ UNCHANGED balance
       ELSE /\ last' = Call("withdraw", sender, withdrawAmount,
                            transferResult(sender, withdrawAmount), <<>>)
            /\ IF transferResult(sender, withdrawAmount) = "ok"
               THEN balance' = [balance EXCEPT ![Vault] = @ - withdrawAmount,
                                               ![sender] = @ + withdrawAmount]
               ELSE UNCHANGED balance
    /\ UNCHANGED <<owner, numOfFunders, funders, lutFunders, firstFunded>>

test1(sender) ==
    /\ last' = Call("test1", sender, 0,
                    IF onlyOwner(sender) THEN "ok" ELSE "NotAuthorized", <<>>)
    /\ UNCHANGED <<owner, numOfFunders, funders, lutFunders, balance, firstFunded>>

test2(sender) ==
    /\ last' = Call("test2", sender, 0,
                    IF onlyOwner(sender) THEN "ok" ELSE "NotAuthorized", <<>>)
    /\ UNCHANGED <<owner, numOfFunders, funders, lutFunders, balance, firstFunded>>

getAllFunders ==
    /\ last' = Call("getAllFunders", ZeroAddress, 0, "ok", getAllFundersRet)
    /\ UNCHANGED <<owner, numOfFunders, funders, lutFunders, balance, firstFunded>>

getFunderAtIndex(index) ==
    /\ last' = Call("getFunderAtIndex", ZeroAddress, index, "ok",
                    <<getFunderAtIndexRet(index)>>)
    /\ UNCHANGED <<owner, numOfFunders, funders, lutFunders, balance, firstFunded>>

emitLog ==
    /\ last' = Call("emitLog", ZeroAddress, 0, "ok", <<emitLogRet>>)
    /\ UNCHANGED <<owner, numOfFunders, funders, lutFunders, balance, firstFunded>>

Next ==
    \/ \E sender \in Accounts, value \in Values :
          addFunds(sender, value) /\ UNCHANGED outside
    \/ \E sender \in Accounts, value \in Values :
          receive(sender, value) /\ UNCHANGED outside
    \/ \E sender \in Accounts, withdrawAmount \in Amounts :
          withdraw(sender, withdrawAmount) /\ UNCHANGED outside
    \/ \E sender \in Accounts : test1(sender) /\ UNCHANGED outside
    \/ \E sender \in Accounts : test2(sender) /\ UNCHANGED outside
    \/ getAllFunders /\ UNCHANGED outside
    \/ \E index \in Indices : getFunderAtIndex(index) /\ UNCHANGED outside
    \/ emitLog /\ UNCHANGED outside

Spec == Init /\ [][Next]_vars

(* ---------------------------- the ledger ------------------------------- *)

\* a call that takes in `value` when it succeeds
TakesIn(value) ==
    /\ received + value <= MaxReceived
    /\ received' = received + (IF last'.result = "ok" THEN value ELSE 0)
    /\ UNCHANGED <<paidOut, deployer, uiVars>>

\* a call that pays out `amount` when it succeeds
PaysOut(amount) ==
    /\ paidOut' = paidOut + (IF last'.result = "ok" THEN amount ELSE 0)
    /\ UNCHANGED <<received, deployer, uiVars>>

\* the calls of Next, with the value they move entered in the ledger
NextLedger ==
    \/ \E sender \in Accounts, value \in Values :
          addFunds(sender, value) /\ TakesIn(value)
    \/ \E sender \in Accounts, value \in Values :
          receive(sender, value) /\ TakesIn(value)
    \/ \E sender \in Accounts, withdrawAmount \in Amounts :
          withdraw(sender, withdrawAmount) /\ PaysOut(withdrawAmount)
    \/ \E sender \in Accounts : test1(sender) /\ PaysOut(0)
    \/ \E sender \in Accounts : test2(sender) /\ PaysOut(0)

SpecLedger == Init /\ [][NextLedger]_vars

(* ---------------------------- the page --------------------------------- *)

\* transactions the buttons of the page start in one behaviour
MaxStarted == 2
\* ether every account holds when the page is opened
WalletEther == 2

\* 10^18 wei (an ether) in units of 5 * 10^16 wei
UnitsPerEther == 20
\* 5 * 10^16 wei in hundredths of an ether
HundredthsPerUnit == 5

\* decimal ether amounts <<whole, hundredths>>: the strings "1" and "0.1"
OneEther == <<1, 0>>
TenthEther == <<0, 10>>

\* web3.utils.toWei(ether, "ether") and web3.utils.fromWei(units, "ether")
toWei(ether) == ether[1] * UnitsPerEther + ether[2] \div HundredthsPerUnit
fromWei(units) ==
    <<units \div UnitsPerEther, (units % UnitsPerEther) * HundredthsPerUnit>>

\* accounts the wallet can authorize for the page; they are key-controlled
WalletAccounts == EOAs

Remove(s, i) == [k \in 1..(Len(s) - 1) |-> IF k < i THEN s[k] ELSE s[k + 1]]

Step(step, arg) == [step |-> step, arg |-> arg]

\* value: toWei("1", "ether") of the handler addFunds
uiDonateValue == toWei(OneEther)

\* mutant of uiWithdrawAmount: the amount of the donation is requested
uiWithdrawAmount_oneEther == toWei(OneEther)

\* withdrawAmount = toWei("0.1", "ether") of the handler withdraw
uiWithdrawAmount == toWei(TenthEther)

\* mutant of canConnectToContract: the account is not looked at
canConnectToContract_contractOnly == web3Api.contract

canConnectToContract == account # Null /\ web3Api.contract

\* the attribute disabled of the two buttons
disabled(kind) == ~canConnectToContract

\* reloadEffect of the render that read shouldReload as `captured`: the
\* value it passes to reload
reloadEffect(captured) == ~captured

\* mutant of loadBalanceEffect: the test of web3Api.contract is missing
loadBalanceEffect_always(api, qs) == Append(qs, [status |-> "sent", value |-> 0])

\* the effect on [web3Api, shouldReload]: web3Api.contract && loadBalance()
loadBalanceEffect(api, qs) ==
    IF api.contract THEN Append(qs, [status |-> "sent", value |-> 0]) ELSE qs

\* what loadContract does for each outcome of its requests: the artifact is
\* fetched and parsed outside the try block, deployed() is called inside it
loadContract(outcome) ==
    CASE outcome = "artifactError" -> "throws"
      [] outcome = "wrongNetwork"  -> "null"
      [] outcome = "deployed"      -> "instance"

LoadContractOutcomes ==
    {"artifactError"} \cup (IF env.network = "right" THEN {"deployed"} ELSE {"wrongNetwork"})

\* setAccountListener has run: it runs in the step that sets web3Api.provider
listening == web3Api.provider

\* a transaction whose page is gone: it is still mined, nothing waits for it
Orphan(tx) == [tx EXCEPT !.live = FALSE, !.captured = FALSE]

Unmined == SelectSeq(txs, LAMBDA tx : tx.status = "sent")

\* window.location.reload(): the page is mounted anew
Reload ==
    /\ loadProviderPc' = "detect"
    /\ web3Api' = InitialWeb3Api
    /\ account' = Null
    /\ getAccountPending' = FALSE
    /\ shouldReload' = FALSE
    /\ uiBalance' = <<>>
    /\ queries' = <<>>
    /\ txs' = [k \in 1..Len(Unmined) |-> Orphan(Unmined[k])]
    /\ UNCHANGED started

pageVars == <<loadProviderPc, web3Api, account, getAccountPending, shouldReload,
              uiBalance, txs, queries, started>>

InitUI ==
    /\ Deployed(toWei(<<WalletEther, 0>>))
    /\ env \in [installed : BOOLEAN, network : {"right", "wrong"},
                wallet : {Null} \cup WalletAccounts]
    /\ PageState("detect")

\* loadProvider: detectEthereumProvider() has resolved
Detected ==
    /\ loadProviderPc = "detect"
    /\ IF env.installed
       THEN /\ loadProviderPc' = "loadContract"
            /\ UNCHANGED web3Api
       ELSE /\ loadProviderPc' = "done"
            /\ web3Api' = [web3Api EXCEPT !.isProviderLoaded = TRUE]
    /\ queries' = IF web3Api' # web3Api THEN loadBalanceEffect(web3Api', queries)
                  ELSE queries
    /\ uiLast' = Step("detected", "")
    /\ UNCHANGED <<env, account, getAccountPending, shouldReload, uiBalance, txs, started>>
    /\ UNCHANGED <<contractVars, deployer, ledger>>

\* loadProvider: loadContract("Faucet", provider) has settled
ContractLoaded(outcome) ==
    /\ loadProviderPc = "loadContract"
    /\ outcome \in LoadContractOutcomes
    /\ IF loadContract(outcome) = "throws"
       THEN /\ loadProviderPc' = "rejected"
            /\ UNCHANGED <<web3Api, queries, getAccountPending>>
       ELSE /\ loadProviderPc' = "done"
            /\ web3Api' = [provider |-> TRUE, web3 |-> TRUE,
                           contract |-> (loadContract(outcome) = "instance"),
                           isProviderLoaded |-> TRUE]
            /\ queries' = loadBalanceEffect(web3Api', queries)
            /\ getAccountPending' = TRUE
    /\ uiLast' = Step("contractLoaded", outcome)
    /\ UNCHANGED <<env, account, shouldReload, uiBalance, txs, started>>
    /\ UNCHANGED <<contractVars, deployer, ledger>>

\* getAccount: web3.eth.getAccounts() has settled
GotAccounts(outcome) ==
    /\ getAccountPending
    /\ getAccountPending' = FALSE
    /\ account' = IF outcome = "error" THEN Null ELSE env.wallet
    /\ uiLast' = Step("gotAccounts", outcome)
    /\ UNCHANGED <<env, loadProviderPc, web3Api, shouldReload, uiBalance, txs, queries, started>>
    /\ UNCHANGED <<contractVars, deployer, ledger>>

\* a click on "Donate 1 eth" or "Withdraw 0.1 eth": the transaction is sent
Click(kind) ==
    /\ ~disabled(kind)
    /\ started < MaxStarted
    /\ txs' = Append(txs, [kind |-> kind, from |-> account, captured |-> shouldReload,
                           status |-> "sent", live |-> TRUE])
    /\ started' = started + 1
    /\ uiLast' = Step("click", kind)
    /\ UNCHANGED <<env, loadProviderPc, web3Api, account, getAccountPending,
                   shouldReload, uiBalance, queries>>
    /\ UNCHANGED <<contractVars, deployer, ledger>>

\* a transaction of the page is executed by the contract
Mined(i) ==
    /\ txs[i].status = "sent"
    /\ IF txs[i].kind = "addFunds"
       THEN IF balance[txs[i].from] >= uiDonateValue
            THEN addFunds(txs[i].from, uiDonateValue)
            ELSE /\ last' = Call("addFunds", txs[i].from, uiDonateValue, "NotSent", <<>>)
                 /\ UNCHANGED <<owner, numOfFunders, funders, lutFunders, balance,
                                firstFunded>>
       ELSE withdraw(txs[i].from, uiWithdrawAmount)
    /\ txs' = IF last'.result = "ok" /\ txs[i].live
              THEN [txs EXCEPT ![i].status = "ok"]
              ELSE Remove(txs, i)
    /\ uiLast' = Step("mined", txs[i].kind)
    /\ UNCHANGED <<env, loadProviderPc, web3Api, account, getAccountPending,
                   shouldReload, uiBalance, queries, started>>
    /\ UNCHANGED <<deployer, ledger>>

\* the handler continues after its await: reloadEffect()
TxDone(i) ==
    /\ txs[i].status = "ok"
    /\ shouldReload' = reloadEffect(txs[i].captured)
    /\ queries' = IF shouldReload' # shouldReload
                  THEN loadBalanceEffect(web3Api, queries) ELSE queries
    /\ txs' = Remove(txs, i)
    /\ uiLast' = Step("txDone", txs[i].kind)
    /\ UNCHANGED <<env, loadProviderPc, web3Api, account, getAccountPending,
                   uiBalance, started>>
    /\ UNCHANGED <<contractVars, deployer, ledger>>

\* loadBalance: the node reads the balance of the contract
QueryAnswered(j) ==
    /\ queries[j].status = "sent"
    /\ queries' = [queries EXCEPT ![j] = [status |-> "answered", value |-> balance[Vault]]]
    /\ uiLast' = Step("queryAnswered", "")
    /\ UNCHANGED <<env, loadProviderPc, web3Api, account, getAccountPending,
                   shouldReload, uiBalance, txs, started>>
    /\ UNCHANGED <<contractVars, deployer, ledger>>

\* loadBalance continues after its await: setBallance(fromWei(balance, "ether"))
QueryDone(j) ==
    /\ queries[j].status = "answered"
    /\ uiBalance' = fromWei(queries[j].value)
    /\ queries' = Remove(queries, j)
    /\ uiLast' = Step("queryDone", "")
    /\ UNCHANGED <<env, loadProviderPc, web3Api, account, getAccountPending,
                   shouldReload, txs, started>>
    /\ UNCHANGED <<contractVars, deployer, ledger>>

\* the provider emits accountsChanged with the accounts now authorized
AccountsChanged(accounts) ==
    /\ env.installed
    /\ accounts # env.wallet
    /\ env' = [env EXCEPT !.wallet = accounts]
    /\ IF ~listening
       THEN UNCHANGED pageVars
       ELSE IF accounts = Null
            THEN /\ account' = Null
                 /\ UNCHANGED <<loadProviderPc, web3Api, getAccountPending, shouldReload,
                                uiBalance, txs, queries, started>>
            ELSE Reload
    /\ uiLast' = Step("accountsChanged", accounts)
    /\ UNCHANGED <<contractVars, deployer, ledger>>

\* the provider emits chainChanged
ChainChanged ==
    /\ env.installed
    /\ env' = [env EXCEPT !.network = IF @ = "right" THEN "wrong" ELSE "right"]
    /\ IF listening THEN Reload ELSE UNCHANGED pageVars
    /\ uiLast' = Step("chainChanged", "")
    /\ UNCHANGED <<contractVars, deployer, ledger>>

\* the provider emits disconnect
Disconnect ==
    /\ env.installed
    /\ IF listening
       THEN /\ account' = Null
            /\ UNCHANGED <<loadProviderPc, web3Api, getAccountPending, shouldReload,
                           uiBalance, txs, queries, started>>
       ELSE UNCHANGED pageVars
    /\ uiLast' = Step("disconnect", "")
    /\ UNCHANGED <<env, contractVars, deployer, ledger>>

NextUI ==
    \/ Detected
    \/ \E outcome \in {"deployed", "wrongNetwork", "artifactError"} : ContractLoaded(outcome)
    \/ \E outcome \in {"accounts", "error"} : GotAccounts(outcome)
    \/ \E kind \in {"addFunds", "withdraw"} : Click(kind)
    \/ \E i \in 1..Len(txs) : Mined(i)
    \/ \E i \in 1..Len(txs) : TxDone(i)
    \/ \E j \in 1..Len(queries) : QueryAnswered(j)
    \/ \E j \in 1..Len(queries) : QueryDone(j)
    \/ \E accounts \in {Null} \cup WalletAccounts : AccountsChanged(accounts)
    \/ ChainChanged
    \/ Disconnect

SpecUI == InitUI /\ [][NextUI]_vars

(* ---------------------------- properties ------------------------------- *)

\* the funder registry of the contract
registry == <<numOfFunders, funders, lutFunders>>

\* the funder sequence: the entries of lutFunders below numOfFunders
funderOrder == [k \in 1..numOfFunders |-> lutFundersAt(k - 1)]

IsPrefix(s, t) == Len(s) <= Len(t) /\ \A k \in 1..Len(s) : s[k] = t[k]

\* C1: a withdraw of more than the ceiling fails with LimitExceeded, whatever
\* the vault balance and the caller, and changes neither the balances nor
\* numOfFunders, funders, lutFunders.
C1_OverLimitWithdrawFails ==
    [][(last'.op = "withdraw" /\ last'.arg > Ceiling)
        => /\ last'.result = "LimitExceeded"
           /\ UNCHANGED <<balance, registry>>]_vars

\* C1 witness: an over-limit withdraw was refused although the vault could pay it
C1_Witness ==
    /\ last.op = "withdraw"
    /\ last.arg > Ceiling
    /\ last.result = "LimitExceeded"
    /\ balance[Vault] >= last.arg

\* what a withdraw of last'.arg by last'.sender does to the balances when it succeeds
WithdrawPaid ==
    /\ balance'[Vault] = balance[Vault] - last'.arg
    /\ balance'[last'.sender] = balance[last'.sender] + last'.arg
    /\ \A a \in Accounts \ {last'.sender} : balance'[a] = balance[a]

\* C2 as stated: a withdraw of at most the ceiling succeeds iff the vault
\* balance covers it, for every caller; success moves exactly the amount from
\* the vault to the caller, failure changes nothing.
C2_Original ==
    [][(last'.op = "withdraw" /\ last'.arg <= Ceiling)
        => /\ (last'.result = "ok") <=> (balance[Vault] >= last'.arg)
           /\ last'.result = "ok" => WithdrawPaid /\ UNCHANGED registry
           /\ last'.result # "ok" => UNCHANGED <<balance, registry>>]_vars

\* C2 amended: a withdraw of at most the ceiling by a caller that accepts
\* value (an externally owned account) succeeds iff the vault balance covers
\* it; a caller that is a contract without a payable receive function makes
\* the transfer fail; success moves exactly the amount from the vault to the
\* caller, every failure changes nothing.
C2_WithdrawWithinLimit ==
    [][(last'.op = "withdraw" /\ last'.arg <= Ceiling)
        => /\ (last'.result = "ok") <=>
                (balance[Vault] >= last'.arg /\ last'.sender \notin NonPayableContracts)
           /\ (balance[Vault] < last'.arg) => last'.result = "InsufficientFunds"
           /\ last'.result = "ok" => WithdrawPaid /\ UNCHANGED registry
           /\ last'.result # "ok" => UNCHANGED <<balance, registry>>]_vars

\* C2 witness: a withdraw of exactly the ceiling succeeded and emptied the vault
C2_Witness ==
    /\ last.op = "withdraw"
    /\ last.arg = Ceiling
    /\ last.result = "ok"
    /\ balance[Vault] = 0
    /\ balance[last.sender] > InitBalance

\* C3: getAllFunders returns the senders of addFunds, each once, in the order
\* of their first addFunds call; it never fails and changes no state.
C3_GetAllFunders ==
    [][last'.op = "getAllFunders"
        => /\ last'.result = "ok"
           /\ last'.ret = firstFunded
           /\ \A j, k \in 1..Len(last'.ret) : j # k => last'.ret[j] # last'.ret[k]
           /\ UNCHANGED <<owner, balance, registry>>]_vars

\* C3 witness: getAllFunders returned every account, after withdrawals were made
C3_Witness ==
    /\ last.op = "getAllFunders"
    /\ Len(last.ret) = Cardinality(Accounts)
    /\ Range(last.ret) = Accounts
    /\ \E a \in Accounts : balance[a] > InitBalance

\* C4: addFunds from an identity already registered leaves numOfFunders,
\* funders and lutFunders unchanged and raises the vault balance by the value
\* attached.
C4_RepeatedAddFunds ==
    [][(last'.op = "addFunds" /\ funders[last'.sender])
        => /\ UNCHANGED registry
           /\ balance'[Vault] = balance[Vault] + last'.arg]_vars

\* C4 witness: the only funder deposited again; the vault holds more than this call brought
C4_Witness ==
    /\ last.op = "addFunds"
    /\ last.arg > 0
    /\ numOfFunders = 1
    /\ funders[last.sender]
    /\ balance[Vault] > last.arg
    /\ \A a \in Accounts \ {last.sender} : balance[a] = InitBalance

\* C5: lutFunders holds an account at every index below numOfFunders and
\* address(0) at every other index, and the accounts below numOfFunders are
\* pairwise distinct.
C5_RegistryShape ==
    /\ DOMAIN lutFunders = 0..(numOfFunders - 1)
    /\ \A i \in 0..UINT8_MAX :
         /\ i < numOfFunders => lutFundersAt(i) \in Accounts
         /\ i >= numOfFunders => lutFundersAt(i) = ZeroAddress
    /\ \A i, j \in 0..(numOfFunders - 1) :
         i # j => lutFundersAt(i) # lutFundersAt(j)

\* C5 witness: every account is registered, one of them after repeated deposits
C5_Witness ==
    /\ numOfFunders = Cardinality(Accounts)
    /\ last.op = "addFunds"
    /\ lutFundersAt(0) = last.sender

\* C6: funders[id] holds iff id is stored in lutFunders below numOfFunders.
C6_FlagsMatchOrder ==
    \A id \in Accounts :
        funders[id] <=> \E i \in 0..(numOfFunders - 1) : lutFundersAt(i) = id

\* C6 witness: some accounts are registered and another one is not
C6_Witness ==
    /\ numOfFunders = 2
    /\ \E id \in Accounts : ~funders[id]
    /\ \E id \in Accounts : funders[id] /\ lutFundersAt(1) = id

\* C7: the funder sequence only grows at its end: it is a prefix of the
\* sequence after every step, numOfFunders never decreases, and it grows by
\* one exactly in the steps that are an addFunds call of an unregistered
\* identity.
C7_AppendOnly ==
    [][/\ IsPrefix(funderOrder, funderOrder')
       /\ numOfFunders' \in {numOfFunders, numOfFunders + 1}
       /\ (numOfFunders' = numOfFunders + 1)
            <=> (last'.op = "addFunds" /\ ~funders[last'.sender])]_vars

\* C7 witness: a second funder was appended behind the first
C7_Witness ==
    /\ last.op = "addFunds"
    /\ numOfFunders = 2
    /\ lutFundersAt(1) = last.sender
    /\ lutFundersAt(0) # last.sender
    /\ balance[last.sender] = InitBalance - last.arg

\* C8: for every uint8 index, getFunderAtIndex returns the index-th identity
\* in first-deposit order below numOfFunders and address(0) from numOfFunders
\* on, without failing and without changing state.
C8_GetFunderAtIndex ==
    /\ [](\A i \in 0..UINT8_MAX :
            getFunderAtIndexRet(i) =
                IF i < Len(firstFunded) THEN firstFunded[i + 1] ELSE ZeroAddress)
    /\ [](numOfFunders = Len(firstFunded))
    /\ [][last'.op = "getFunderAtIndex"
           => /\ last'.result = "ok"
              /\ last'.ret = <<IF last'.arg < numOfFunders
                               THEN firstFunded[last'.arg + 1] ELSE ZeroAddress>>
              /\ UNCHANGED <<owner, balance, registry>>]_vars

\* C8 witness: the second funder was read at index 1
C8_Witness ==
    /\ last.op = "getFunderAtIndex"
    /\ last.arg = 1
    /\ numOfFunders >= 2
    /\ last.ret = <<firstFunded[2]>>

\* C9 as stated: any identity, registered or not, withdraws successfully when
\* the amount is within the ceiling and the vault covers it; no withdraw
\* changes numOfFunders, funders or lutFunders.
C9_Original ==
    [][last'.op = "withdraw"
        => /\ (last'.arg <= Ceiling /\ balance[Vault] >= last'.arg)
                => last'.result = "ok"
           /\ UNCHANGED registry]_vars

\* C9 amended: any identity that accepts value, registered or not, withdraws
\* successfully when the amount is within the ceiling and the vault covers it;
\* no withdraw, successful or failed, changes numOfFunders, funders or
\* lutFunders.
C9_WithdrawIgnoresRegistry ==
    [][last'.op = "withdraw"
        => /\ (/\ last'.arg <= Ceiling
               /\ balance[Vault] >= last'.arg
               /\ last'.sender \notin NonPayableContracts)
                => last'.result = "ok"
           /\ UNCHANGED registry]_vars

\* C9 witness: two funders, and a third identity that never funded was paid
C9_Witness ==
    /\ last.op = "withdraw"
    /\ last.result = "ok"
    /\ last.arg > 0
    /\ numOfFunders = 2
    /\ ~funders[last.sender]
    /\ last.sender \notin Range(firstFunded)

\* C10: test1 and test2 fail with NotAuthorized when the caller is not the
\* owner and succeed when it is; either way balances, registry and owner are
\* unchanged.
C10_OwnerGate ==
    [][last'.op \in {"test1", "test2"}
        => /\ last'.result = (IF last'.sender = owner THEN "ok" ELSE "NotAuthorized")
           /\ UNCHANGED <<owner, balance, registry>>]_vars

\* C10 witness: a funder that is not the owner was refused by test1
C10_Witness ==
    /\ last.op = "test1"
    /\ last.sender # owner
    /\ funders[last.sender]
    /\ last.result = "NotAuthorized"

\* C11: the owner is the identity that constructed the contract, and no
\* sequence of calls from any callers changes it.
C11_OwnerIsDeployer ==
    /\ [](owner = deployer)
    /\ [][owner' = owner]_vars

\* C11 witness: an identity other than the deployer funded, withdrew and was
\* paid, and the deployer is still the owner
C11_Witness ==
    /\ owner = deployer
    /\ last.op = "withdraw"
    /\ last.result = "ok"
    /\ last.sender # deployer
    /\ funders[last.sender]
    /\ ~funders[deployer]

\* C12: a direct transfer to the contract (receive) never fails, raises the
\* vault balance by the value attached and leaves numOfFunders, funders and
\* lutFunders unchanged, also for a sender that never funded.
C12_ReceiveKeepsRegistry ==
    /\ [](\A sender \in Accounts, value \in Values :
            balance[sender] >= value => ENABLED receive(sender, value))
    /\ [][last'.op = "receive"
           => /\ last'.result = "ok"
              /\ balance'[Vault] = balance[Vault] + last'.arg
              /\ balance'[last'.sender] = balance[last'.sender] - last'.arg
              /\ UNCHANGED <<owner, registry>>]_vars

\* C12 witness: the vault was paid by direct transfer only; nobody is registered
C12_Witness ==
    /\ last.op = "receive"
    /\ last.arg > 0
    /\ balance[Vault] >= last.arg
    /\ numOfFunders = 0
    /\ ~funders[last.sender]

\* C13: addFunds fails for no value and no sender; with the value 0 as with
\* any other it registers a sender not yet registered: the sender is stored
\* at index numOfFunders, its flag is set and numOfFunders grows by one.
C13_AddFundsTotal ==
    /\ [](\A sender \in Accounts, value \in Values :
            balance[sender] >= value => ENABLED addFunds(sender, value))
    /\ [][last'.op = "addFunds"
           => /\ last'.result = "ok"
              /\ balance'[Vault] = balance[Vault] + last'.arg
              /\ ~funders[last'.sender]
                   => /\ numOfFunders' = numOfFunders + 1
                      /\ funders' = [funders EXCEPT ![last'.sender] = TRUE]
                      /\ lutFunders' = (numOfFunders :> last'.sender) @@ lutFunders]_vars

\* C13 witness: the second funder was registered by a deposit of value 0
C13_Witness ==
    /\ last.op = "addFunds"
    /\ last.arg = 0
    /\ last.result = "ok"
    /\ numOfFunders = 2
    /\ lutFundersAt(1) = last.sender
    /\ balance[last.sender] = InitBalance

\* C19: the vault balance is the value taken in by addFunds and receive less
\* the value paid out by successful withdraw calls, and is never negative; a
\* call that fails changes neither total nor any balance.
C19_BalanceIsLedger ==
    /\ [](balance[Vault] = received - paidOut)
    /\ [](balance[Vault] >= 0)
    /\ [][last'.result # "ok" => UNCHANGED <<received, paidOut, balance>>]_vars

\* C19 witness: value came in, part of it was paid out, then a withdraw failed
C19_Witness ==
    /\ received > balance[Vault]
    /\ balance[Vault] > 0
    /\ paidOut > 0
    /\ last.op = "withdraw"
    /\ last.result = "InsufficientFunds"

\* C14: the two buttons are enabled iff an account is connected and a
\* contract instance is loaded, so the page starts a transaction only in such
\* a state, and from the connected account.
C14_ButtonsEnabled ==
    /\ [](\A kind \in {"addFunds", "withdraw"} :
            ~disabled(kind) <=> (account # Null /\ web3Api.contract))
    /\ [][started' # started
           => /\ account # Null
              /\ web3Api.contract
              /\ Len(txs') = Len(txs) + 1
              /\ txs'[Len(txs')].from = account]_vars

\* C14 witness: a click started a transaction while another was in flight
C14_Witness ==
    /\ uiLast.step = "click"
    /\ Len(txs) = 2
    /\ account # Null
    /\ web3Api.contract

\* C15 as stated: when loadProvider has come to its end, whether a provider
\* was found or not and however loading the contract ended, isProviderLoaded
\* is true.
C15_Original ==
    loadProviderPc \in {"done", "rejected"} => web3Api.isProviderLoaded

\* C16 as stated: when the handler of a successful transaction continues
\* after its await, a new loadBalance query is started.
C16_Original ==
    [][uiLast'.step = "txDone" => Len(queries') = Len(queries) + 1]_vars

\* C17 as stated: every accountsChanged and every chainChanged event emitted
\* once the listeners are registered reloads the page.
C17_Original ==
    [][(uiLast'.step \in {"accountsChanged", "chainChanged"} /\ listening)
        => /\ loadProviderPc' = "detect"
           /\ web3Api' = InitialWeb3Api]_vars

\* C18: when a provider is present and the lookup of the deployed contract
\* fails, loadContract returns null and loadProvider ends with
\* isProviderLoaded = true and contract = null; while contract is null no
\* balance query is issued or in flight, both buttons are disabled and no
\* transaction is started.
C18_WrongNetwork ==
    /\ [][(uiLast'.step = "contractLoaded" /\ uiLast'.arg = "wrongNetwork")
           => /\ loadProviderPc' = "done"
              /\ web3Api'.provider
              /\ web3Api'.isProviderLoaded
              /\ ~web3Api'.contract]_vars
    /\ [](~web3Api.contract
            => /\ queries = <<>>
               /\ \A kind \in {"addFunds", "withdraw"} : disabled(kind))
    /\ [][~web3Api.contract => started' = started]_vars

\* C18 witness: on the wrong network an account is connected, the contract is null
C18_Witness ==
    /\ env.network = "wrong"
    /\ web3Api.provider
    /\ web3Api.isProviderLoaded
    /\ ~web3Api.contract
    /\ account # Null
    /\ loadProviderPc = "done"

\* C20: every withdraw the page sends asks for exactly 0.1 ether, the ceiling
\* of limitWithdraw; it is never refused with LimitExceeded, and it fails at
\* the contract only when the vault holds less than 0.1 ether.
C20_UiWithdrawWithinLimit ==
    [][(uiLast'.step = "mined" /\ uiLast'.arg = "withdraw")
        => /\ last'.op = "withdraw"
           /\ last'.arg = Ceiling
           /\ last'.result # "LimitExceeded"
           /\ last'.result # "ok"
                => (balance[Vault] < Ceiling /\ last'.result = "InsufficientFunds")]_vars

\* C20 witness: after a donation of the page, a withdraw of the page was paid
C20_Witness ==
    /\ uiLast.step = "mined"
    /\ uiLast.arg = "withdraw"
    /\ last.op = "withdraw"
    /\ last.result = "ok"
    /\ balance[Vault] = uiDonateValue - Ceiling

\* C21: once no balance query and no transaction of the page is outstanding,
\* the displayed balance is the balance the vault holds: the response of an
\* older query never replaces the result of a newer one.
C21_Original ==
    (web3Api.contract /\ queries = <<>> /\ txs = <<>> /\ uiBalance # <<>>)
        => toWei(uiBalance) = balance[Vault]

====
